---- MODULE Spec2Model ----
(***************************************************************************)
(* gosynth: the synthesis engine of pkg/synth (Synth, SmoothValue,         *)
(* AudioCallback, SoftClip, CalculateModulatorFreq, MIDINoteToFreq), the   *)
(* control surface of pkg/ui (Model.Update), the note-start handler, and   *)
(* Start, Stop and main with its signal goroutine.                         *)
(*                                                                         *)
(* Numbers.  The program computes in float64.  Here every quantity is a    *)
(* fixed-point integer:                                                    *)
(*   frequencies      in 1/FreqScale Hz   (440 Hz      = 4400)             *)
(*   sweep time       in 1/SweepScale s   (0.300 s     = 30)               *)
(*   amplitudes       in 1/AmpScale       (0.6         = 600)              *)
(*   time             in sample periods   (1/SampleRate s)                 *)
(* and NaN is one extra value that every arithmetic operator propagates,   *)
(* as IEEE-754 does.  Products are truncated toward zero where the float   *)
(* result is not representable on the grid.                                *)
(***************************************************************************)
EXTENDS Integers, Sequences, FiniteSets, TLC

\* ------------------------------------------------------------ constants
FreqScale == 10
SweepScale == 100
AmpScale == 1000

SampleRate == 44100
ConstMinModFreq == 100 * FreqScale
ConstMaxModFreq == 600 * FreqScale
FreqSweepTime == 30
ModulationIndex == 500
ClipThreshold == 600
ClipHardLimit == 850
InitialVolume == 750
AudioBufferSize == 2048

\* ------------------------------------------------------------ bounds
\* key events the control surface handles in one run of Spec
MaxKeys == 3
\* the time cursor is explored up to this many sample periods in Spec (the
\* host hands the stream callback output slices of every length that fits)
MaxTime == 2
\* SoftClip is evaluated on every sample of -MaxSample..MaxSample
MaxSample == 2000
\* AudioCallback is called directly with every length up to MaxChunk (and
\* with the lengths around half of AudioBufferSize)
MaxChunk == 40
\* messages the note source delivers in one run of SpecNote
MaxMessages == 2
\* CalculateModulatorFreq is called on every instant up to MaxInstant sample
\* periods (and on instants around the sweep periods)
MaxInstant == 50

\* ------------------------------------------------------------ float64 model
NaN == 0 - 2000000000

IsNaN(x) == x = NaN

Max(a, b) == IF a >= b THEN a ELSE b

Min(a, b) == IF a <= b THEN a ELSE b

Abs(x) == IF x < 0 THEN 0 - x ELSE x

\* quotient truncated toward zero (b > 0)
TruncDiv(a, b) == IF a >= 0 THEN a \div b ELSE 0 - ((0 - a) \div b)

\* a * b of two amplitudes on the amplitude grid
FMul(a, b) == IF IsNaN(a) \/ IsNaN(b) THEN NaN ELSE TruncDiv(a * b, AmpScale)

FAdd(a, b) == IF IsNaN(a) \/ IsNaN(b) THEN NaN ELSE a + b

\* math.Mod(x, y): NaN when y = 0 (or an operand is NaN); otherwise the
\* remainder of |x| by |y| with the sign of x
FMod(x, y) ==
    IF IsNaN(x) \/ IsNaN(y) \/ y = 0 THEN NaN
    ELSE IF x >= 0 THEN x % Abs(y) ELSE 0 - ((0 - x) % Abs(y))

\* math.Sin(2 * math.Pi * freq * t): freq * t turns, t in sample periods.
\* The turn is cut into 360 degrees and the half wave is Bhaskara's
\* rational approximation 4d(180-d) / (40500 - d(180-d)).
Sin2Pi(freq, t) ==
    IF IsNaN(freq) THEN NaN
    ELSE LET p == (freq * t) % (SampleRate * FreqScale)
             deg == (p * 360) \div (SampleRate * FreqScale)
             d == IF deg < 180 THEN deg ELSE deg - 180
             h == (4 * AmpScale * d * (180 - d)) \div (40500 - d * (180 - d))
         IN  IF deg < 180 THEN h ELSE 0 - h

\* float32(x) of a float64 product of two amplitudes (x in 1/AmpScale^2):
\* the nearest value of the coarser grid
Float32(x) ==
    IF IsNaN(x) THEN NaN
    ELSE IF x >= 0 THEN (x + AmpScale \div 2) \div AmpScale
         ELSE 0 - ((0 - x + AmpScale \div 2) \div AmpScale)

\* ------------------------------------------------------------ state
VARIABLES
    CarrierFreq, MinModFreq, MaxModFreq, SweepTime, ModIndex, Volume,
    buffer, timeIndex,
    selected, realTime, displayTime, timeHueOffset,
    pc, out, i, carrier, periods, maxRead, freqRange, modFreq, sample,
    keys,
    call,
    stream, stopMIDI, goroutine, host, startErr, exit, invoked

params == <<CarrierFreq, MinModFreq, MaxModFreq, SweepTime, ModIndex, Volume>>
uiVars == <<selected, realTime, displayTime, timeHueOffset>>
audioVars == <<buffer, timeIndex, pc, out, i, carrier, periods, maxRead, freqRange, modFreq, sample>>
budget == <<keys>>
harness == <<call>>
lifecycle == <<stream, stopMIDI, goroutine, host, startErr, exit, invoked>>
vars == <<params, uiVars, audioVars, budget, harness, lifecycle>>

\* ------------------------------------------------------------ SmoothValue
\* Set stores the value as given; Get returns the stored value; Update
\* does nothing.
Set(sv, value) == value

Get(sv) == sv

Update(sv) == sv


\* ------------------------------------------------------------ pure functions
\* 2^(r/12) for r in 0..11, times 10^5
Semitone(r) ==
    CASE r = 0 -> 100000 [] r = 1 -> 105946 [] r = 2 -> 112246
      [] r = 3 -> 118921 [] r = 4 -> 125992 [] r = 5 -> 133484
      [] r = 6 -> 141421 [] r = 7 -> 149831 [] r = 8 -> 158740
      [] r = 9 -> 168179 [] r = 10 -> 178180 [] r = 11 -> 188775

RECURSIVE PowerOfTwo(_)
PowerOfTwo(n) == IF n = 0 THEN 1 ELSE 2 * PowerOfTwo(n - 1)

\* MIDINoteToFreq with note 60 (middle C) taken for the 440 Hz reference
MIDINoteToFreqFromC(note) ==
    LET k == note - 60
        octave == k \div 12
        r == k % 12
        base == 44 * Semitone(r)
    IN  IF octave >= 0
        THEN (base * PowerOfTwo(octave) + 500) \div 1000
        ELSE (base + 500 * PowerOfTwo(0 - octave)) \div (1000 * PowerOfTwo(0 - octave))

\* 440.0 * math.Pow(2, (float64(note)-69.0)/12.0), rounded to the
\* frequency grid: 440 * 2^octave * 2^(r/12) with (note - 69) = 12*octave + r
MIDINoteToFreq(note) ==
    LET k == note - 69
        octave == k \div 12
        r == k % 12
        base == 44 * Semitone(r)
    IN  IF octave >= 0
        THEN (base * PowerOfTwo(octave) + 500) \div 1000
        ELSE (base + 500 * PowerOfTwo(0 - octave)) \div (1000 * PowerOfTwo(0 - octave))

\* periods := t / s.SweepTime.Get(), kept as the exact fraction num/den
\* (t sample periods over sweep/SweepScale seconds)
Periods(t, sweep) == [num |-> t, den |-> (SampleRate \div SweepScale) * sweep]

\* freqRange := s.MaxModFreq.Get() - s.MinModFreq.Get()
FreqRange(maxv, minv) == maxv - minv

\* freqIncrease without the wrap around (no math.Mod)
FreqIncreaseUnwrapped(per, range) ==
    IF per.den = 0 THEN NaN
    ELSE TruncDiv(per.num * range, per.den)

\* freqIncrease := math.Mod(periods*freqRange, freqRange); a zero sweep
\* time makes periods infinite (or 0/0) and the remainder NaN
FreqIncrease(per, range) ==
    IF per.den = 0 THEN NaN
    ELSE FMod(TruncDiv(per.num * range, per.den), range)

\* CalculateModulatorFreq(t), given the values its four Get calls return in
\* program order: SweepTime, MaxModFreq, MinModFreq, MinModFreq again
CalculateModulatorFreq(t, sweep, maxv, minv, minv2) ==
    FAdd(minv2, FreqIncrease(Periods(t, sweep), FreqRange(maxv, minv)))

\* SoftClip with the compression factor left unclamped (no math.Min)
SoftClipUnclamped(s) ==
    IF ~IsNaN(s) /\ Abs(s) > ClipThreshold
    THEN LET excess == Abs(s) - ClipThreshold
             compressionFactor ==
                 AmpScale - (excess * AmpScale) \div (ClipHardLimit - ClipThreshold)
             sign == IF s < 0 THEN 0 - 1 ELSE 1
         IN  sign * (ClipThreshold + TruncDiv(excess * compressionFactor, AmpScale))
    ELSE s

\* SoftClip(sample)
SoftClip(s) ==
    IF ~IsNaN(s) /\ Abs(s) > ClipThreshold
    THEN LET excess == Abs(s) - ClipThreshold
             compressionFactor ==
                 AmpScale - Min(AmpScale, (excess * AmpScale) \div (ClipHardLimit - ClipThreshold))
             sign == IF s < 0 THEN 0 - 1 ELSE 1
         IN  sign * (ClipThreshold + TruncDiv(excess * compressionFactor, AmpScale))
    ELSE s

\* sample := carrier * (1 + s.ModIndex.Get()*modulator)
Modulate(car, index, modulator) == FMul(car, FAdd(AmpScale, FMul(index, modulator)))

\* float32(sample * s.Volume.Get())
Scaled(s, volume) == Float32(IF IsNaN(s) \/ IsNaN(volume) THEN NaN ELSE s * volume)

\* ------------------------------------------------------------ control surface
\* the literals of Model.Update, on the model's grids
FreqStep == 10 * FreqScale
FreqFloor == 20 * FreqScale
FreqCeiling == 2000 * FreqScale
SweepStep == 1
SweepFloor == 1
SweepCeiling == 100
LevelStep == 50
LevelCeiling == 1000
LastItem == 6

\* the argument of each Set call of the "left" branch
CarrierLeft(c) == Max(FreqFloor, c - FreqStep)
MinModLeft(minv) == Max(FreqFloor, minv - FreqStep)
MaxModLeft(minv, maxv) == Max(minv + FreqStep, maxv - FreqStep)
\* SweepLeft without the floor
SweepLeftUnclamped(sw) == sw - SweepStep

SweepLeft(sw) == Max(SweepFloor, sw - SweepStep)
LevelLeft(v) == Max(0, v - LevelStep)

\* the argument of each Set call of the "right" branch
CarrierRight(c) == Min(FreqCeiling, c + FreqStep)
\* MinModRight without the clamp against the sibling
MinModRightUnclamped(minv, maxv) == minv + FreqStep

MinModRight(minv, maxv) == Min(maxv - FreqStep, minv + FreqStep)
MaxModRight(maxv) == Min(FreqCeiling, maxv + FreqStep)
SweepRight(sw) == Min(SweepCeiling, sw + SweepStep)
LevelRight(v) == Min(LevelCeiling, v + LevelStep)

\* case "left" with m.selected = sel < 6
Left(sel) ==
    /\ CarrierFreq' = IF sel = 0 THEN Set(CarrierFreq, CarrierLeft(Get(CarrierFreq))) ELSE CarrierFreq
    /\ MinModFreq' = IF sel = 1 THEN Set(MinModFreq, MinModLeft(Get(MinModFreq))) ELSE MinModFreq
    /\ MaxModFreq' = IF sel = 2 THEN Set(MaxModFreq, MaxModLeft(Get(MinModFreq), Get(MaxModFreq))) ELSE MaxModFreq
    /\ SweepTime' = IF sel = 3 THEN Set(SweepTime, SweepLeft(Get(SweepTime))) ELSE SweepTime
    /\ ModIndex' = IF sel = 4 THEN Set(ModIndex, LevelLeft(Get(ModIndex))) ELSE ModIndex
    /\ Volume' = IF sel = 5 THEN Set(Volume, LevelLeft(Get(Volume))) ELSE Volume

\* case "right" with m.selected = sel < 6
Right(sel) ==
    /\ CarrierFreq' = IF sel = 0 THEN Set(CarrierFreq, CarrierRight(Get(CarrierFreq))) ELSE CarrierFreq
    /\ MinModFreq' = IF sel = 1 THEN Set(MinModFreq, MinModRight(Get(MinModFreq), Get(MaxModFreq))) ELSE MinModFreq
    /\ MaxModFreq' = IF sel = 2 THEN Set(MaxModFreq, MaxModRight(Get(MaxModFreq))) ELSE MaxModFreq
    /\ SweepTime' = IF sel = 3 THEN Set(SweepTime, SweepRight(Get(SweepTime))) ELSE SweepTime
    /\ ModIndex' = IF sel = 4 THEN Set(ModIndex, LevelRight(Get(ModIndex))) ELSE ModIndex
    /\ Volume' = IF sel = 5 THEN Set(Volume, LevelRight(Get(Volume))) ELSE Volume

Keys == {"up", "down", "left", "right"}

\* Model.Update(tea.KeyMsg): the state of the model and of the synth after
\* the key
KeyMsg(key) ==
    /\ selected' = IF key = "up" /\ selected > 0 THEN selected - 1
                   ELSE IF key = "down" /\ selected < LastItem THEN selected + 1
                   ELSE selected
    /\ realTime' = IF key \in {"left", "right"} /\ selected = LastItem
                   THEN ~realTime ELSE realTime
    /\ IF key = "left" /\ selected # LastItem THEN Left(selected)
       ELSE IF key = "right" /\ selected # LastItem THEN Right(selected)
       ELSE UNCHANGED params
    /\ UNCHANGED <<displayTime, timeHueOffset>>

\* GetTimeIndex returns the time cursor
GetTimeIndex == timeIndex

\* drawWaveform: displayTime is 0, or GetTimeIndex() when realTime is set;
\* timeHueOffset := math.Mod(synth.GetTimeIndex()*0.2, 1.0), kept in
\* 1/(5*SampleRate)
View ==
    /\ displayTime' = IF realTime THEN GetTimeIndex ELSE 0
    /\ timeHueOffset' = GetTimeIndex % (5 * SampleRate)
    /\ UNCHANGED <<selected, realTime, params>>

\* ------------------------------------------------------------ note source
\* the messages the note source delivers: note-ons of the lowest and of the
\* highest key, a note-on of velocity 0, a note-off and a control change
Messages ==
    {[type |-> "NoteOn", key |-> 0, velocity |-> 100],
     [type |-> "NoteOn", key |-> 127, velocity |-> 100],
     [type |-> "NoteOn", key |-> 69, velocity |-> 0],
     [type |-> "NoteOff", key |-> 69, velocity |-> 0],
     [type |-> "ControlChange", key |-> 0, velocity |-> 0]}

\* GetNoteStart answering true for every message
GetNoteStartAlways(msg) == TRUE

\* msg.GetNoteStart: a note-on message with a velocity above 0
GetNoteStart(msg) == msg.type = "NoteOn" /\ msg.velocity > 0

\* the listener Start registers with midi.ListenTo
Listener(msg) ==
    /\ CarrierFreq' = IF GetNoteStart(msg) THEN Set(CarrierFreq, MIDINoteToFreq(msg.key))
                      ELSE CarrierFreq
    /\ UNCHANGED <<MinModFreq, MaxModFreq, SweepTime, ModIndex, Volume>>

\* ------------------------------------------------------------ AudioCallback
\* One action per shared read of the loop body, in program order; the
\* control thread may run between any two of them.
Zeros(n) == [j \in 1..n |-> 0]

\* s.buffer is make([]float32, AudioBufferSize).  The variable buffer holds
\* its cells up to the last one ever written; the cells after it are still
\* the zeros make left there.
BufferAt(j) == IF j < Len(buffer) THEN buffer[j + 1] ELSE 0

\* s.buffer with cell j set to v
BufferWith(j, v) ==
    [k \in 1..Max(Len(buffer), j + 1) |-> IF k = j + 1 THEN v ELSE BufferAt(k - 1)]

\* t := s.timeIndex + float64(i)/SampleRate
T == timeIndex + i

\* the stream invokes AudioCallback(out) with len(out) = n: the call is
\* entered, and the actions below run its body read by read
EnterAudioCallback(n) ==
    /\ pc = "idle"
    /\ out' = Zeros(n)
    /\ i' = 0
    /\ pc' = IF n = 0 THEN "copy" ELSE "carrier"
    /\ UNCHANGED <<buffer, timeIndex, carrier, periods, maxRead, freqRange, modFreq, sample>>

\* carrier := math.Sin(2 * math.Pi * s.CarrierFreq.Get() * t)
ReadCarrier ==
    /\ pc = "carrier"
    /\ carrier' = Sin2Pi(Get(CarrierFreq), T)
    /\ pc' = "periods"
    /\ UNCHANGED <<buffer, timeIndex, out, i, periods, maxRead, freqRange, modFreq, sample>>

\* periods := t / s.SweepTime.Get()
ReadSweepTime ==
    /\ pc = "periods"
    /\ periods' = Periods(T, Get(SweepTime))
    /\ pc' = "max"
    /\ UNCHANGED <<buffer, timeIndex, out, i, carrier, maxRead, freqRange, modFreq, sample>>

\* freqRange := s.MaxModFreq.Get() - ...: the left operand
ReadMaxModFreq ==
    /\ pc = "max"
    /\ maxRead' = Get(MaxModFreq)
    /\ pc' = "min"
    /\ UNCHANGED <<buffer, timeIndex, out, i, carrier, periods, freqRange, modFreq, sample>>

\* ... - s.MinModFreq.Get(): the right operand
ReadMinModFreq ==
    /\ pc = "min"
    /\ freqRange' = FreqRange(maxRead, Get(MinModFreq))
    /\ pc' = "return"
    /\ UNCHANGED <<buffer, timeIndex, out, i, carrier, periods, maxRead, modFreq, sample>>

\* return s.MinModFreq.Get() + freqIncrease
ReturnModulatorFreq ==
    /\ pc = "return"
    /\ modFreq' = FAdd(Get(MinModFreq), FreqIncrease(periods, freqRange))
    /\ pc' = "sample"
    /\ UNCHANGED <<buffer, timeIndex, out, i, carrier, periods, maxRead, freqRange, sample>>

\* modulator, sample := carrier * (1 + s.ModIndex.Get()*modulator),
\* sample = SoftClip(sample)
ReadModIndex ==
    /\ pc = "sample"
    /\ sample' = SoftClip(Modulate(carrier, Get(ModIndex), Sin2Pi(modFreq, T)))
    /\ pc' = "store"
    /\ UNCHANGED <<buffer, timeIndex, out, i, carrier, periods, maxRead, freqRange, modFreq>>

\* Store advancing the time cursor with every sample it stores
StorePerSample ==
    /\ pc = "store"
    /\ i < AudioBufferSize
    /\ buffer' = BufferWith(i, Scaled(sample, Get(Volume)))
    /\ i' = i + 1
    /\ timeIndex' = timeIndex + 1
    /\ pc' = IF i + 1 < Len(out) THEN "carrier" ELSE "copy"
    /\ UNCHANGED <<out, carrier, periods, maxRead, freqRange, modFreq, sample>>

\* s.buffer[i] = float32(sample * s.Volume.Get()), an index-out-of-range
\* panic when i is not below len(s.buffer); then the next i
Store ==
    /\ pc = "store"
    /\ IF i < AudioBufferSize
       THEN /\ buffer' = BufferWith(i, Scaled(sample, Get(Volume)))
            /\ i' = i + 1
            /\ pc' = IF i + 1 < Len(out) THEN "carrier" ELSE "copy"
       ELSE /\ pc' = "panic"
            /\ UNCHANGED <<buffer, i>>
    /\ UNCHANGED <<timeIndex, out, carrier, periods, maxRead, freqRange, modFreq, sample>>

\* copy(out, s.buffer[:len(out)]); s.timeIndex += float64(len(out)) / SampleRate
Return ==
    /\ pc = "copy"
    /\ IF Len(out) <= AudioBufferSize
       THEN /\ out' = [j \in 1..Len(out) |-> BufferAt(j - 1)]
            /\ timeIndex' = timeIndex + Len(out)
            /\ pc' = "idle"
       ELSE /\ pc' = "panic"
            /\ UNCHANGED <<out, timeIndex>>
    /\ UNCHANGED <<buffer, i, carrier, periods, maxRead, freqRange, modFreq, sample>>

\* ------------------------------------------------------------ Start, Stop, main
\* the process runs until os.Exit, log.Fatal or the return of main
Alive == exit = "running"

\* the listener is attached: ListenTo succeeded and its stop function has
\* not been invoked
Listening == stopMIDI = "set" /\ invoked.stopMIDI = 0

\* the results portaudio and midi give the calls of one Start
Outcomes ==
    [Initialize : BOOLEAN, GetInPorts : 0..1, InPort : BOOLEAN, ListenTo : BOOLEAN,
     DefaultOutputDevice : BOOLEAN, OpenStream : BOOLEAN, StreamStart : BOOLEAN]

Result(called, ok) == IF ~called THEN "not called" ELSE IF ok THEN "ok" ELSE "error"

\* what each call returned, for the calls Start reaches under outcomes o
Calls(o) ==
    [Initialize |-> Result(TRUE, o.Initialize),
     GetInPorts |-> IF ~o.Initialize THEN "not called"
                    ELSE IF o.GetInPorts > 0 THEN "ports" ELSE "no ports",
     InPort |-> Result(o.Initialize /\ o.GetInPorts > 0, o.InPort),
     ListenTo |-> Result(o.Initialize /\ o.GetInPorts > 0 /\ o.InPort, o.ListenTo),
     DefaultOutputDevice |-> Result(o.Initialize, o.DefaultOutputDevice),
     OpenStream |-> Result(o.Initialize /\ o.DefaultOutputDevice, o.OpenStream),
     StreamStart |-> Result(o.Initialize /\ o.DefaultOutputDevice /\ o.OpenStream,
                            o.StreamStart)]

\* the error of Start with a failure of the note source returned as well
StartErrorStrict(o) ==
    IF ~o.Initialize THEN "Initialize"
    ELSE IF o.GetInPorts = 0 \/ ~o.InPort \/ ~o.ListenTo THEN "ListenTo"
    ELSE IF ~o.DefaultOutputDevice THEN "DefaultOutputDevice"
    ELSE IF ~o.OpenStream THEN "OpenStream"
    ELSE IF ~o.StreamStart THEN "StreamStart"
    ELSE "nil"

\* the error Start returns: that of the first failing call among
\* portaudio.Initialize, portaudio.DefaultOutputDevice, portaudio.OpenStream
\* and stream.Start, or nil
StartError(o) ==
    IF ~o.Initialize THEN "Initialize"
    ELSE IF ~o.DefaultOutputDevice THEN "DefaultOutputDevice"
    ELSE IF ~o.OpenStream THEN "OpenStream"
    ELSE IF ~o.StreamStart THEN "StreamStart"
    ELSE "nil"

\* Start(): s.stopMIDI is set when ports exist and InPort and ListenTo
\* succeed; s.stream is set once OpenStream has succeeded
Start(o) ==
    /\ stopMIDI' = IF o.Initialize /\ o.GetInPorts > 0 /\ o.InPort /\ o.ListenTo
                   THEN "set" ELSE "nil"
    /\ stream' = IF StartError(o) \in {"Initialize", "DefaultOutputDevice", "OpenStream"}
                 THEN "nil"
                 ELSE IF o.StreamStart THEN "started" ELSE "open"
    /\ startErr' = StartError(o)
    /\ host' = Calls(o)

\* main: s.Start(), log.Fatal on an error; otherwise the deferred Stop is
\* registered, the signal goroutine started and the UI run
MainStart ==
    /\ Alive
    /\ goroutine.main = "Start"
    /\ \E o \in Outcomes : Start(o)
    /\ IF startErr' # "nil"
       THEN /\ exit' = "Exit(1)"
            /\ goroutine' = [goroutine EXCEPT !.main = "exited"]
       ELSE /\ exit' = exit
            /\ goroutine' = [main |-> "Run", signal |-> "wait"]
    /\ UNCHANGED <<params, uiVars, audioVars, budget, harness, invoked>>

\* p.Run() returns without an error: main returns and runs the deferred
\* s.Stop()
Quit ==
    /\ Alive
    /\ goroutine.main = "Run"
    /\ goroutine' = [goroutine EXCEPT !.main = "Stop"]
    /\ UNCHANGED <<params, uiVars, audioVars, budget, harness,
                   stream, stopMIDI, host, startErr, exit, invoked>>

\* p.Run() returns an error: os.Exit(1)
RunError ==
    /\ Alive
    /\ goroutine.main = "Run"
    /\ exit' = "Exit(1)"
    /\ goroutine' = [goroutine EXCEPT !.main = "exited"]
    /\ UNCHANGED <<params, uiVars, audioVars, budget, harness,
                   stream, stopMIDI, host, startErr, invoked>>

\* SIGINT or SIGTERM arrives on sigChan: the goroutine goes on to s.Stop()
Signal ==
    /\ Alive
    /\ goroutine.signal = "wait"
    /\ goroutine' = [goroutine EXCEPT !.signal = "Stop"]
    /\ UNCHANGED <<params, uiVars, audioVars, budget, harness,
                   stream, stopMIDI, host, startErr, exit, invoked>>

Goroutines == {"main", "signal"}

\* where a goroutine goes on when its Stop() returns
AfterStop(th) == IF th = "main" THEN "CloseDriver" ELSE "Exit"

\* Stop(): if s.stopMIDI != nil { s.stopMIDI() }
StopMIDI(th) ==
    /\ goroutine[th] = "Stop"
    /\ invoked' = [invoked EXCEPT !.Stop = @ + 1,
                                  !.stopMIDI = IF stopMIDI # "nil" THEN @ + 1 ELSE @]
    /\ goroutine' = [goroutine EXCEPT ![th] = "Close"]
    /\ UNCHANGED stream

\* StopStream leaving the stream as it is
StopStreamLeftOpen(th) ==
    /\ goroutine[th] = "Close"
    /\ goroutine' = [goroutine EXCEPT ![th] = "Terminate"]
    /\ UNCHANGED <<stream, invoked>>

\* Stop(): if s.stream != nil { if err := s.stream.Close(); err != nil
\* { return err } }.  Close of a started stream returns once the callback
\* in progress has returned, and no callback is invoked after it; Close of
\* a closed stream does nothing.
StopStream(th) ==
    /\ goroutine[th] = "Close"
    /\ IF stream = "nil"
       THEN /\ goroutine' = [goroutine EXCEPT ![th] = "Terminate"]
            /\ UNCHANGED <<stream, invoked>>
       ELSE /\ stream = "started" => pc = "idle"
            /\ stream' = "closed"
            /\ \E ok \in BOOLEAN :
                  IF ok \/ stream = "closed"
                  THEN /\ goroutine' = [goroutine EXCEPT ![th] = "Terminate"]
                       /\ invoked' = [invoked EXCEPT !.Close = @ + 1]
                  ELSE /\ goroutine' = [goroutine EXCEPT ![th] = AfterStop(th)]
                       /\ invoked' = [invoked EXCEPT !.Close = @ + 1, !.returned = @ + 1]

\* Stop(): return portaudio.Terminate()
StopTerminate(th) ==
    /\ goroutine[th] = "Terminate"
    /\ goroutine' = [goroutine EXCEPT ![th] = AfterStop(th)]
    /\ invoked' = [invoked EXCEPT !.returned = @ + 1]
    /\ UNCHANGED stream

\* one step of a Stop() call of either goroutine
Stop ==
    /\ Alive
    /\ \E th \in Goroutines : StopMIDI(th) \/ StopStream(th) \/ StopTerminate(th)
    /\ UNCHANGED <<params, uiVars, audioVars, budget, harness,
                   stopMIDI, host, startErr, exit>>

\* main: the deferred midi.CloseDriver() and the return of main
MainReturn ==
    /\ Alive
    /\ goroutine.main = "CloseDriver"
    /\ exit' = "returned"
    /\ goroutine' = [goroutine EXCEPT !.main = "exited"]
    /\ UNCHANGED <<params, uiVars, audioVars, budget, harness,
                   stream, stopMIDI, host, startErr, invoked>>

\* the signal goroutine: os.Exit(0)
SignalExit ==
    /\ Alive
    /\ goroutine.signal = "Exit"
    /\ exit' = "Exit(0)"
    /\ goroutine' = [goroutine EXCEPT !.signal = "exited"]
    /\ UNCHANGED <<params, uiVars, audioVars, budget, harness,
                   stream, stopMIDI, host, startErr, invoked>>

\* no call of Start or Stop has been made
Unstarted ==
    /\ stream = "nil"
    /\ stopMIDI = "nil"
    /\ goroutine = [main |-> "Start", signal |-> "none"]
    /\ host = [Initialize |-> "not called", GetInPorts |-> "not called",
               InPort |-> "not called", ListenTo |-> "not called",
               DefaultOutputDevice |-> "not called", OpenStream |-> "not called",
               StreamStart |-> "not called"]
    /\ startErr = "none"
    /\ exit = "running"
    /\ invoked = [Stop |-> 0, stopMIDI |-> 0, Close |-> 0, returned |-> 0]

\* Start has returned nil with the listener attached, and main runs the UI
Started ==
    /\ stream = "started"
    /\ stopMIDI = "set"
    /\ goroutine = [main |-> "Run", signal |-> "wait"]
    /\ host = Calls([Initialize |-> TRUE, GetInPorts |-> 1, InPort |-> TRUE,
                     ListenTo |-> TRUE, DefaultOutputDevice |-> TRUE,
                     OpenStream |-> TRUE, StreamStart |-> TRUE])
    /\ startErr = "nil"
    /\ exit = "running"
    /\ invoked = [Stop |-> 0, stopMIDI |-> 0, Close |-> 0, returned |-> 0]

\* ------------------------------------------------------------ the program
\* NewSynth and ui.NewModel
NewSynth ==
    /\ CarrierFreq = 440 * FreqScale
    /\ MinModFreq = ConstMinModFreq
    /\ MaxModFreq = ConstMaxModFreq
    /\ SweepTime = FreqSweepTime
    /\ ModIndex = ModulationIndex
    /\ Volume = InitialVolume
    /\ buffer = << >>
    /\ timeIndex = 0

NewModel ==
    /\ selected = 0
    /\ realTime = FALSE
    /\ displayTime = 0
    /\ timeHueOffset = 0

Idle ==
    /\ pc = "idle"
    /\ out = << >>
    /\ i = 0
    /\ carrier = 0
    /\ periods = Periods(0, FreqSweepTime)
    /\ maxRead = 0
    /\ freqRange = 0
    /\ modFreq = 0
    /\ sample = 0

\* A state the control surface reaches from NewSynth and NewModel before
\* the run that Spec explores: the volume lowered to 0 (five "down" keys,
\* 15 "left" keys on item 5), minModFreq raised to maxModFreq - 10 Hz (four
\* "up" keys, 49 "right" keys on item 1) and item 2 selected ("down").
Narrowed ==
    /\ CarrierFreq = 440 * FreqScale
    /\ MinModFreq = ConstMaxModFreq - FreqStep
    /\ MaxModFreq = ConstMaxModFreq
    /\ SweepTime = FreqSweepTime
    /\ ModIndex = ModulationIndex
    /\ Volume = 0
    /\ buffer = << >>
    /\ timeIndex = 0
    /\ selected = 2
    /\ realTime = FALSE
    /\ displayTime = 0
    /\ timeHueOffset = 0

\* no direct call of the package's functions is under way
NoCall == [fn |-> "none", param |-> "none", arg |-> 0, ret |-> 0, stage |-> "none"]

Init ==
    /\ \/ NewSynth /\ NewModel
       \/ Narrowed
    /\ Idle
    /\ keys = 0
    /\ call = NoCall
    /\ Started

KeyPress ==
    /\ Alive
    /\ goroutine.main = "Run"
    /\ keys < MaxKeys
    /\ pc # "panic"
    /\ \E key \in Keys : KeyMsg(key)
    /\ keys' = keys + 1
    /\ UNCHANGED <<audioVars, harness, lifecycle>>

Frame ==
    /\ Alive
    /\ goroutine.main = "Run"
    /\ pc # "panic"
    /\ View
    /\ UNCHANGED <<audioVars, budget, harness, lifecycle>>

NoteMessage ==
    /\ Alive
    /\ Listening
    /\ pc # "panic"
    /\ \E msg \in Messages : Listener(msg)
    /\ UNCHANGED <<uiVars, audioVars, budget, harness, lifecycle>>

StreamCallback ==
    /\ Alive
    /\ stream = "started"
    /\ \E n \in 0..MaxTime : timeIndex + n <= MaxTime /\ EnterAudioCallback(n)
    /\ UNCHANGED <<params, uiVars, budget, harness, lifecycle>>

AudioStep ==
    /\ Alive
    /\ \/ ReadCarrier
       \/ ReadSweepTime
       \/ ReadMaxModFreq
       \/ ReadMinModFreq
       \/ ReturnModulatorFreq
       \/ ReadModIndex
       \/ Store
       \/ Return
    /\ UNCHANGED <<params, uiVars, budget, harness, lifecycle>>

Next == KeyPress \/ Frame \/ NoteMessage \/ StreamCallback \/ AudioStep

Spec == Init /\ [][Next]_vars

\* ------------------------------------------------------------ SpecBounds
\* The control surface alone, from NewSynth and NewModel, with the user
\* adjusting the two modulator bounds (and toggling the display) only: every
\* pair of bounds the keys can produce is explored.
Quiet ==
    /\ NewSynth
    /\ NewModel
    /\ Idle
    /\ keys = 0
    /\ Unstarted

InitBounds == Quiet /\ call = NoCall

BoundsKey ==
    /\ \E key \in Keys :
          /\ key \in {"left", "right"} => selected \in {1, 2, LastItem}
          /\ KeyMsg(key)
    /\ UNCHANGED <<audioVars, budget, harness, lifecycle>>

SpecBounds == InitBounds /\ [][BoundsKey]_vars

\* ------------------------------------------------------------ SpecMain
\* main from its first statement: Start with every outcome of the calls it
\* makes, then the stream callbacks and the note messages running while the
\* UI runs, until the UI ends or a signal arrives, and the Stop calls.
InitMain == Quiet /\ call = NoCall

MainNext ==
    \/ MainStart
    \/ NoteMessage
    \/ StreamCallback
    \/ AudioStep
    \/ Quit
    \/ RunError
    \/ Signal
    \/ Stop
    \/ MainReturn
    \/ SignalExit

SpecMain == InitMain /\ [][MainNext]_vars

\* ------------------------------------------------------------ SpecRace
\* The listener's CarrierFreq.Set(...) racing with the audio thread's Get
\* calls.  sv.value = value is a plain store of a float64 with no
\* synchronisation: a build may perform it as one store, or (where a float64
\* is wider than a machine word) as two word stores in either order, and
\* the audio thread may read between them.  A stored value is split into a
\* high and a low word at WordBase.
WordBase == 100

High(v) == v \div WordBase

Low(v) == v % WordBase

Words(hi, lo) == hi * WordBase + lo

InitRace ==
    /\ NewSynth
    /\ NewModel
    /\ Idle
    /\ keys = 0
    /\ call = NoCall
    /\ Started

\* the listener gets a note-start and calls s.CarrierFreq.Set
BeginSet ==
    /\ Alive
    /\ Listening
    /\ call.stage \in {"none", "returned"}
    /\ \E msg \in Messages :
          /\ GetNoteStart(msg)
          /\ call' = [fn |-> "Set", param |-> "CarrierFreq",
                      arg |-> MIDINoteToFreq(msg.key), ret |-> 0, stage |-> "called"]
    /\ UNCHANGED <<params, uiVars, audioVars, budget, lifecycle>>

\* sv.value = value: the whole value at once, or one of its words
StoreWord ==
    /\ Alive
    /\ call.fn = "Set"
    /\ \/ /\ call.stage = "called"
          /\ CarrierFreq' = Set(CarrierFreq, call.arg)
          /\ call' = [call EXCEPT !.stage = "returned"]
       \/ /\ call.stage = "called"
          /\ CarrierFreq' = Words(High(CarrierFreq), Low(call.arg))
          /\ call' = [call EXCEPT !.stage = "low"]
       \/ /\ call.stage = "called"
          /\ CarrierFreq' = Words(High(call.arg), Low(CarrierFreq))
          /\ call' = [call EXCEPT !.stage = "high"]
       \/ /\ call.stage \in {"low", "high"}
          /\ CarrierFreq' = Set(CarrierFreq, call.arg)
          /\ call' = [call EXCEPT !.stage = "returned"]
    /\ UNCHANGED <<MinModFreq, MaxModFreq, SweepTime, ModIndex, Volume,
                   uiVars, audioVars, budget, lifecycle>>

SpecRace == InitRace /\ [][BeginSet \/ StoreWord \/ StreamCallback \/ AudioStep]_vars

\* ------------------------------------------------------------ SpecSurface
\* The control surface alone, from NewSynth and NewModel, with the user
\* adjusting the sweep time, the modulation index and the volume and
\* toggling the display: every combination of the three the keys can
\* produce is explored.
SurfaceKey ==
    /\ \E key \in Keys :
          /\ key \in {"left", "right"} => selected \in 3..LastItem
          /\ KeyMsg(key)
    /\ UNCHANGED <<audioVars, budget, harness, lifecycle>>

SpecSurface == InitBounds /\ [][SurfaceKey]_vars

\* ------------------------------------------------------------ SpecClip
\* SoftClip(x) called on every sample of the grid up to MaxSample, and on
\* two samples far beyond it.
ClipSamples == (0 - MaxSample)..MaxSample \cup {0 - 10 * AmpScale, 10 * AmpScale}

InitClip ==
    /\ Quiet
    /\ call \in [fn : {"SoftClip"}, param : {"none"}, arg : ClipSamples,
                  ret : {0}, stage : {"called"}]

CallSoftClip ==
    /\ call.fn = "SoftClip"
    /\ call.stage = "called"
    /\ call' = [call EXCEPT !.ret = SoftClip(call.arg), !.stage = "returned"]
    /\ UNCHANGED <<params, uiVars, audioVars, budget, lifecycle>>

SpecClip == InitClip /\ [][CallSoftClip]_vars

\* ------------------------------------------------------------ SpecParam
\* Set(v), Update() and Get() called in turn on one of the six SmoothValue
\* fields of the Synth, for values inside and outside the range the control
\* surface keeps the field in.
ParamNames == {"CarrierFreq", "MinModFreq", "MaxModFreq", "SweepTime", "ModIndex", "Volume"}

SetValues == {0 - 50, 0, 1, 500, 1000, 5000, 50000}

InitParam ==
    /\ Quiet
    /\ call \in [fn : {"Set"}, param : ParamNames, arg : SetValues,
                  ret : {0}, stage : {"called"}]

Field(name) ==
    CASE name = "CarrierFreq" -> CarrierFreq
      [] name = "MinModFreq" -> MinModFreq
      [] name = "MaxModFreq" -> MaxModFreq
      [] name = "SweepTime" -> SweepTime
      [] name = "ModIndex" -> ModIndex
      [] name = "Volume" -> Volume

\* the fields after Set(value) on the field called name
SetField(name, value) ==
    /\ CarrierFreq' = IF name = "CarrierFreq" THEN Set(CarrierFreq, value) ELSE CarrierFreq
    /\ MinModFreq' = IF name = "MinModFreq" THEN Set(MinModFreq, value) ELSE MinModFreq
    /\ MaxModFreq' = IF name = "MaxModFreq" THEN Set(MaxModFreq, value) ELSE MaxModFreq
    /\ SweepTime' = IF name = "SweepTime" THEN Set(SweepTime, value) ELSE SweepTime
    /\ ModIndex' = IF name = "ModIndex" THEN Set(ModIndex, value) ELSE ModIndex
    /\ Volume' = IF name = "Volume" THEN Set(Volume, value) ELSE Volume

\* the fields after Update() on the field called name
UpdateField(name) ==
    /\ CarrierFreq' = IF name = "CarrierFreq" THEN Update(CarrierFreq) ELSE CarrierFreq
    /\ MinModFreq' = IF name = "MinModFreq" THEN Update(MinModFreq) ELSE MinModFreq
    /\ MaxModFreq' = IF name = "MaxModFreq" THEN Update(MaxModFreq) ELSE MaxModFreq
    /\ SweepTime' = IF name = "SweepTime" THEN Update(SweepTime) ELSE SweepTime
    /\ ModIndex' = IF name = "ModIndex" THEN Update(ModIndex) ELSE ModIndex
    /\ Volume' = IF name = "Volume" THEN Update(Volume) ELSE Volume

CallSet ==
    /\ call.fn = "Set"
    /\ call.stage = "called"
    /\ SetField(call.param, call.arg)
    /\ call' = [call EXCEPT !.stage = "set"]
    /\ UNCHANGED <<uiVars, audioVars, budget, lifecycle>>

CallUpdate ==
    /\ call.fn = "Set"
    /\ call.stage = "set"
    /\ UpdateField(call.param)
    /\ call' = [call EXCEPT !.stage = "updated"]
    /\ UNCHANGED <<uiVars, audioVars, budget, lifecycle>>

CallGet ==
    /\ call.fn = "Set"
    /\ call.stage = "updated"
    /\ call' = [call EXCEPT !.ret = Get(Field(call.param)), !.stage = "returned"]
    /\ UNCHANGED <<params, uiVars, audioVars, budget, lifecycle>>

SpecParam == InitParam /\ [][CallSet \/ CallUpdate \/ CallGet]_vars

\* ------------------------------------------------------------ SpecChunk
\* AudioCallback called directly, with no other thread running, so that a
\* call is one step: either twice with n frames or once with 2n frames,
\* from NewSynth.

\* the sample of time t that the loop body computes when no parameter
\* changes while it runs
SampleAt(t) ==
    LET modulatorFreq ==
            CalculateModulatorFreq(t, Get(SweepTime), Get(MaxModFreq),
                                   Get(MinModFreq), Get(MinModFreq))
        raw == Modulate(Sin2Pi(Get(CarrierFreq), t), Get(ModIndex), Sin2Pi(modulatorFreq, t))
    IN  Scaled(SoftClip(raw), Get(Volume))

\* AudioCallback(out) with len(out) = n, run from its first statement to its
\* return, or to the index-out-of-range panic of s.buffer[i] at
\* i = len(s.buffer)
AudioCallback(n) ==
    /\ pc = "idle"
    /\ LET stored == Min(n, AudioBufferSize)
       IN  /\ buffer' = [k \in 1..Max(Len(buffer), stored) |->
                            IF k <= stored THEN SampleAt(timeIndex + k - 1) ELSE buffer[k]]
           /\ i' = stored
    /\ IF n <= AudioBufferSize
       THEN /\ out' = [j \in 1..n |-> SampleAt(timeIndex + j - 1)]
            /\ timeIndex' = timeIndex + n
            /\ pc' = "idle"
       ELSE /\ out' = Zeros(n)
            /\ pc' = "panic"
            /\ UNCHANGED timeIndex
    /\ UNCHANGED <<carrier, periods, maxRead, freqRange, modFreq, sample>>

ChunkSizes == 0..MaxChunk \cup {AudioBufferSize \div 2, AudioBufferSize \div 2 + 1}

InitChunk ==
    /\ Quiet
    /\ call \in [fn : {"AudioCallback"}, param : {"split", "whole"}, arg : ChunkSizes,
                  ret : {0}, stage : {"called"}]

\* the calls still to make, given how many have been made
Remaining ==
    IF call.param = "split" THEN SubSeq(<<call.arg, call.arg>>, call.ret + 1, 2)
    ELSE SubSeq(<<2 * call.arg>>, call.ret + 1, 1)

DirectCall ==
    /\ call.fn = "AudioCallback"
    /\ Remaining # << >>
    /\ AudioCallback(Head(Remaining))
    /\ call' = [call EXCEPT !.ret = call.ret + 1,
                            !.stage = IF Len(Remaining) = 1 THEN "returned" ELSE "called"]
    /\ UNCHANGED <<params, uiVars, budget, lifecycle>>

SpecChunk == InitChunk /\ [][DirectCall]_vars

\* ------------------------------------------------------------ SpecNote
\* The listener alone: the note source delivers up to MaxMessages messages,
\* one after the other, and the stream may fill one buffer before them.
\* Note-ons of every key, and messages of every type, channel and velocity
\* for two keys.
MaxNote == 127

NoteMessages ==
    [type : {"NoteOn"}, channel : {0}, key : 0..MaxNote, velocity : {127}]
    \cup [type : {"NoteOn", "NoteOff", "ControlChange"}, channel : {0, 15},
          key : {60, 69}, velocity : {0, 1, 127}]

InitNote ==
    /\ Quiet
    /\ call \in [fn : {"Listener"}, param : {"none"}, arg : NoteMessages,
                  ret : {1}, stage : {"called"}]

\* the listener runs on the message the note source delivers
Deliver ==
    /\ call.fn = "Listener"
    /\ call.stage = "called"
    /\ Listener(call.arg)
    /\ call' = [call EXCEPT !.stage = "returned"]
    /\ UNCHANGED <<uiVars, audioVars, budget, lifecycle>>

\* the note source has its next message
NextMessage ==
    /\ call.fn = "Listener"
    /\ call.stage = "returned"
    /\ call.ret < MaxMessages
    /\ \E msg \in NoteMessages :
          call' = [call EXCEPT !.arg = msg, !.ret = call.ret + 1, !.stage = "called"]
    /\ UNCHANGED <<params, uiVars, audioVars, budget, lifecycle>>

\* the stream has one buffer filled before the first message
FirstFill ==
    /\ call.fn = "Listener"
    /\ call.ret = 1
    /\ call.stage = "called"
    /\ timeIndex = 0
    /\ AudioCallback(MaxTime)
    /\ UNCHANGED <<params, uiVars, budget, harness, lifecycle>>

SpecNote == InitNote /\ [][Deliver \/ NextMessage \/ FirstFill]_vars

\* ------------------------------------------------------------ SpecSweep
\* CalculateModulatorFreq(t) and then CalculateModulatorFreq(t + SweepTime),
\* called directly while no parameter changes, for bounds and sweep times
\* the control surface can set.
BoundPairs ==
    {<<ConstMinModFreq, ConstMaxModFreq>>,
     <<ConstMaxModFreq - FreqStep, ConstMaxModFreq>>,
     <<FreqFloor, FreqCeiling>>,
     <<FreqFloor, FreqFloor + FreqStep>>,
     <<FreqCeiling - FreqStep, FreqCeiling>>}

SweepTimes == {SweepFloor, FreqSweepTime, SweepCeiling}

Instants == 0..MaxInstant \cup {441, 6615, 13229, 13230, 13231, 44099, 44100}

InitSweep ==
    /\ CarrierFreq = 440 * FreqScale
    /\ \E pair \in BoundPairs : MinModFreq = pair[1] /\ MaxModFreq = pair[2]
    /\ SweepTime \in SweepTimes
    /\ ModIndex = ModulationIndex
    /\ Volume = InitialVolume
    /\ buffer = << >>
    /\ timeIndex = 0
    /\ NewModel
    /\ Idle
    /\ keys = 0
    /\ Unstarted
    /\ call \in [fn : {"CalculateModulatorFreq"}, param : {"none"}, arg : Instants,
                  ret : {<< >>}, stage : {"called"}]

\* the call on t = call.arg, then the call on t plus one sweep period
CallCalculateModulatorFreq ==
    /\ call.fn = "CalculateModulatorFreq"
    /\ Len(call.ret) < 2
    /\ LET t == call.arg + Len(call.ret) * Periods(0, Get(SweepTime)).den
           f == CalculateModulatorFreq(t, Get(SweepTime), Get(MaxModFreq),
                                       Get(MinModFreq), Get(MinModFreq))
       IN  call' = [call EXCEPT !.ret = Append(call.ret, f), !.stage = "returned"]
    /\ UNCHANGED <<params, uiVars, audioVars, budget, lifecycle>>

SpecSweep == InitSweep /\ [][CallCalculateModulatorFreq]_vars

\* ------------------------------------------------------------ claims (Spec)
\* C1: under any interleaving of control-surface edits and note-ons with
\* the audio thread's reads, no NaN ever reaches the engine's buffer or the
\* output slice.
C1_OutputFinite ==
    /\ \A j \in DOMAIN buffer : ~IsNaN(buffer[j])
    /\ \A j \in DOMAIN out : ~IsNaN(out[j])

\* C2: carrierFrequency is always within [20, 2000] Hz.
C2_CarrierInRange == CarrierFreq >= FreqFloor /\ CarrierFreq <= FreqCeiling

\* C4: when CalculateModulatorFreq has read equal bounds (freqRange = 0) it
\* returns that bound, a finite number.
C4_ZeroRangeIsConstant ==
    (pc = "sample" /\ freqRange = 0) => (~IsNaN(modFreq) /\ modFreq = maxRead)

\* C7: the time cursor starts at 0 and never decreases; only the step that
\* ends an AudioCallback changes it, by exactly len(out), once every sample
\* of the call has been computed; it stays at the pre-call cursor while the
\* samples are computed, and key events, note messages and GetTimeIndex
\* leave it unchanged.
C7_TimeCursor ==
    /\ timeIndex = 0
    /\ [][/\ timeIndex' >= timeIndex
          /\ (timeIndex' # timeIndex) =>
                (pc = "copy" /\ pc' = "idle" /\ i = Len(out) /\ UNCHANGED <<params, uiVars>>)
          /\ (pc = "copy" /\ pc' = "idle") => timeIndex' = timeIndex + Len(out)
          /\ (pc # "idle" /\ pc' # "idle") => timeIndex' = timeIndex]_vars

\* a two-sample callback has ended after key events, a note message and a
\* GetTimeIndex read of an advanced cursor
C7_Witness ==
    /\ pc = "idle"
    /\ Len(out) = 2
    /\ timeIndex >= 2
    /\ timeHueOffset > 0
    /\ keys > 0
    /\ CarrierFreq = MIDINoteToFreq(127)

\* C9: a sample stored while Volume is 0 is exactly 0.
C9_MutedIsSilent ==
    [][(pc = "store" /\ pc' # "store" /\ pc' # "panic" /\ Get(Volume) = 0)
          => buffer'[i + 1] = 0]_vars

\* ------------------------------------------------------------ claims (SpecBounds)
\* C3: from min = 100 and max = 600, after any sequence of adjustments of
\* the two bounds, min <= max - 10 Hz, min >= 20 Hz and max <= 2000 Hz.
C3_BoundsOrdered ==
    /\ MinModFreq <= MaxModFreq - FreqStep
    /\ MinModFreq >= FreqFloor
    /\ MaxModFreq <= FreqCeiling

\* min has been raised until the clamp against max holds it at max - 10 Hz
C3_Witness ==
    /\ MinModFreq = ConstMaxModFreq - FreqStep
    /\ MaxModFreq = ConstMaxModFreq
    /\ selected = 1

\* ------------------------------------------------------------ claims (SpecClip)
\* C5: |SoftClip(x)| never exceeds ClipHardLimit, and SoftClip(x) = x for
\* |x| <= ClipThreshold.
C5_ClipBounded ==
    (call.fn = "SoftClip" /\ call.stage = "returned") =>
        /\ Abs(call.ret) <= ClipHardLimit
        /\ Abs(call.arg) <= ClipThreshold => call.ret = call.arg

\* a sample above the threshold has been compressed
C5_Witness ==
    /\ call.fn = "SoftClip"
    /\ call.stage = "returned"
    /\ call.arg = 725
    /\ call.ret = 662

\* C6: for |x| >= ClipHardLimit, SoftClip(x) is ClipHardLimit with the sign
\* of x.
C6_SaturatesAtHardLimit ==
    (call.fn = "SoftClip" /\ call.stage = "returned" /\ Abs(call.arg) >= ClipHardLimit) =>
        call.ret = (IF call.arg < 0 THEN 0 - ClipHardLimit ELSE ClipHardLimit)

\* ------------------------------------------------------------ claims (SpecParam)
\* the range the control surface keeps each field in
Minimum(name) ==
    CASE name \in {"CarrierFreq", "MinModFreq"} -> FreqFloor
      [] name = "MaxModFreq" -> MinModFreq + FreqStep
      [] name = "SweepTime" -> SweepFloor
      [] name \in {"ModIndex", "Volume"} -> 0

Maximum(name) ==
    CASE name \in {"CarrierFreq", "MaxModFreq"} -> FreqCeiling
      [] name = "MinModFreq" -> MaxModFreq - FreqStep
      [] name = "SweepTime" -> SweepCeiling
      [] name \in {"ModIndex", "Volume"} -> LevelCeiling

\* C10: after Set(v) and Update(), Get() returns v clamped into the
\* parameter's [minimum, maximum].
C10_SetClamps ==
    (call.fn = "Set" /\ call.stage = "returned") =>
        call.ret = Max(Minimum(call.param), Min(Maximum(call.param), call.arg))

\* ------------------------------------------------------------ claims (SpecChunk)
\* C8: two consecutive AudioCallback calls with n frames and one call with
\* 2n frames both complete, leave the same time cursor, and produce for
\* every position the sample that depends on the position alone.
C8_ChunkingIndependent ==
    /\ pc # "panic"
    /\ (call.fn = "AudioCallback" /\ call.stage = "returned") =>
          /\ timeIndex = 2 * call.arg
          /\ \A j \in 1..Len(out) : out[j] = SampleAt(timeIndex - Len(out) + j - 1)

\* ------------------------------------------------------------ claims (SpecNote)
\* the equal-tempered frequencies of the notes 69..80 (A4..G#5), in 0.1 Hz
EqualTempered == <<4400, 4662, 4939, 5233, 5544, 5873, 6223, 6593, 6985, 7400, 7840, 8306>>

\* C11: a note-start with key n sets carrierFrequency to 440 * 2^((n-69)/12):
\* exactly 440 Hz for n = 69 and 880 Hz for n = 81, the equal-tempered
\* frequency for the notes of the octave above 69, twice the frequency of
\* note n - 12 (to the rounding of the grid), and more than the frequency
\* of note n - 1.
C11_NoteFrequency ==
    (call.fn = "Listener" /\ call.stage = "returned"
        /\ call.arg.type = "NoteOn" /\ call.arg.velocity > 0) =>
        LET n == call.arg.key
        IN  /\ n = 69 => CarrierFreq = 440 * FreqScale
            /\ n = 81 => CarrierFreq = 880 * FreqScale
            /\ n \in 69..80 => CarrierFreq = EqualTempered[n - 68]
            /\ n >= 12 => Abs(CarrierFreq - 2 * MIDINoteToFreq(n - 12)) <= 1
            /\ n >= 1 => CarrierFreq > MIDINoteToFreq(n - 1)

\* the note source has delivered the note-start of key 81 after another
\* message
C11_Witness ==
    /\ call.fn = "Listener"
    /\ call.stage = "returned"
    /\ call.ret = 2
    /\ call.arg.type = "NoteOn"
    /\ call.arg.key = 81
    /\ CarrierFreq = 880 * FreqScale

\* C12: a message that is not a note-start leaves carrierFrequency, every
\* other parameter, the time cursor and the buffer unchanged; a note-start
\* changes carrierFrequency only, to a value its key alone determines.
C12_OnlyNoteStartSetsCarrier ==
    [][(call.fn = "Listener" /\ call.stage = "called" /\ call'.stage = "returned") =>
          /\ UNCHANGED <<MinModFreq, MaxModFreq, SweepTime, ModIndex, Volume>>
          /\ UNCHANGED <<timeIndex, buffer, out, uiVars>>
          /\ IF call.arg.type = "NoteOn" /\ call.arg.velocity > 0
             THEN CarrierFreq' = MIDINoteToFreq(call.arg.key)
             ELSE CarrierFreq' = CarrierFreq]_vars

\* a note-off on another channel has been delivered after the note-start of
\* key 127 and a buffer fill: the carrier still holds that note's frequency
C12_Witness ==
    /\ call.fn = "Listener"
    /\ call.stage = "returned"
    /\ call.ret = 2
    /\ call.arg.type = "NoteOff"
    /\ call.arg.channel = 15
    /\ timeIndex = MaxTime
    /\ CarrierFreq = MIDINoteToFreq(127)

AudioCalls == {"Initialize", "DefaultOutputDevice", "OpenStream", "StreamStart"}

\* C14: once Start has returned, its error is non-nil exactly when one of
\* its audio calls returned an error, and then main has exited without
\* running the UI or starting the signal goroutine; when the audio calls
\* succeed and there is no MIDI port, or InPort or ListenTo fails, Start
\* returns nil, no listener is attached and carrierFrequency stays 440 Hz.
C14_StartFailsOnAudioOnly ==
    startErr # "none" =>
        /\ (startErr # "nil") <=> (\E c \in AudioCalls : host[c] = "error")
        /\ startErr # "nil" =>
              (goroutine = [main |-> "exited", signal |-> "none"] /\ exit = "Exit(1)")
        /\ ((\A c \in AudioCalls : host[c] = "ok")
               /\ (host.GetInPorts = "no ports" \/ host.InPort = "error"
                      \/ host.ListenTo = "error")) =>
              (startErr = "nil" /\ stopMIDI = "nil" /\ CarrierFreq = 440 * FreqScale)

\* ListenTo failed, Start returned nil, and the stream has filled buffers
\* while main runs the UI
C14_Witness ==
    /\ host.ListenTo = "error"
    /\ startErr = "nil"
    /\ goroutine.main = "Run"
    /\ stream = "started"
    /\ timeIndex = MaxTime

C19_StopExactlyOnce ==
    /\ invoked.Stop <= 1
    /\ invoked.stopMIDI <= 1
    /\ invoked.Close <= 1
    /\ (~Alive /\ startErr = "nil") => (invoked.Stop = 1 /\ invoked.returned = 1)

\* ------------------------------------------------------------ claims (SpecRace)
\* the values ever stored whole in CarrierFreq: its default and the
\* arguments of the listener's Set calls
WholeCarrierFreqs ==
    {440 * FreqScale} \cup {MIDINoteToFreq(msg.key) : msg \in {m \in Messages : GetNoteStart(m)}}

\* C15: every value the audio thread reads from a parameter is a value
\* that was stored whole in it, its default or the argument of a Set call.
C15_ReadsAreWhole ==
    [][/\ (pc = "carrier" /\ pc' = "periods") => CarrierFreq \in WholeCarrierFreqs
       /\ (pc = "periods" /\ pc' = "max") => SweepTime = FreqSweepTime
       /\ (pc = "max" /\ pc' = "min") => MaxModFreq = ConstMaxModFreq
       /\ (pc = "min" /\ pc' = "return") => MinModFreq = ConstMinModFreq
       /\ (pc = "sample" /\ pc' = "store") => ModIndex = ModulationIndex
       /\ (pc = "store" /\ pc' # "store") => Volume = InitialVolume]_vars

\* ------------------------------------------------------------ claims (SpecChunk)
\* C17: every AudioCallback call, whatever the length of its output slice,
\* returns, having written every entry of the slice, advanced the time
\* cursor by its length and kept its index inside the internal buffer.
C17_AnyLengthCompletes ==
    (call.fn = "AudioCallback" /\ call.ret > 0) =>
        /\ pc = "idle"
        /\ i = Len(out)
        /\ i <= AudioBufferSize
        /\ Len(out) = (IF call.param = "split" THEN call.arg ELSE 2 * call.arg)
        /\ timeIndex = call.ret * Len(out)

\* ------------------------------------------------------------ claims (SpecSurface)
\* C18: after any sequence of key events the selection is in 0..6, the
\* sweep time in [0.01, 1.0], the modulation index and the volume in
\* [0, 1]; a key that moves the selection changes nothing else, and a
\* key that toggles the real-time display is pressed on item 6 and changes
\* nothing else; a key that changes a parameter leaves both alone.
C18_SurfaceInRange ==
    /\ [](/\ selected \in 0..6
          /\ SweepTime >= 1 /\ SweepTime <= 100
          /\ ModIndex >= 0 /\ ModIndex <= AmpScale
          /\ Volume >= 0 /\ Volume <= AmpScale)
    /\ [][/\ selected' # selected =>
                (selected' \in {selected - 1, selected + 1} /\ UNCHANGED <<params, realTime>>)
          /\ realTime' # realTime => (selected = 6 /\ UNCHANGED <<params, selected>>)
          /\ params' # params => (selected \in 0..5 /\ UNCHANGED <<selected, realTime>>)
          /\ UNCHANGED <<timeIndex, buffer>>]_vars

\* the sweep time at its floor, the modulation index at 0, the volume at 1
\* and the real-time display toggled on
C18_Witness ==
    /\ SweepTime = 1
    /\ ModIndex = 0
    /\ Volume = AmpScale
    /\ selected = 6
    /\ realTime

====
